---- MODULE Spec2Model ----
(***************************************************************************)
(* Reconciliation of invoices (boletos) with proofs of payment             *)
(* (comprovantes): src/pdf_tools/services.py.                              *)
(*                                                                         *)
(* The module models TabelaComprovantes (the proof pool with its three     *)
(* searches and the used set) and the invoice loop of                      *)
(* processar_reconciliacao that drives it.  Text fields are sequences of   *)
(* one-character strings, so that stripping, lower-casing and substring    *)
(* tests are computed and not assumed.  Amounts are integers in cents.     *)
(* The method names are written without accents: "CODIGO" is the source's  *)
(* 'CÓDIGO'.                                                               *)
(***************************************************************************)
EXTENDS Integers, Sequences, FiniteSets

\* ---------------------------------------------------------------- bounds

\* Largest number of pages of the proof file.
MaxComprovantes == 2

\* Largest number of invoices handed to one run.
MaxBoletos == 2

\* Largest length of the strings that are tried exhaustively.
MaxTexto == 3

\* Largest number of calls of extrair_com_gemini and expiries in a row.
MaxExtracoes == 3

\* ------------------------------------------------------------------ text

Digitos == {"0", "1", "2", "3", "4", "5", "6", "7", "8", "9"}

\* re.sub(r'[^0-9]', '', str(codigo)): every non-digit character is dropped.
Limpar(s) == SelectSeq(s, LAMBDA c : c \in Digitos)

\* Python's `a in b` on strings: a is a contiguous part of b (the empty
\* string is part of every string).
Contem(a, b) == \E k \in 0..(Len(b) - Len(a)) : SubSeq(b, k + 1, k + Len(a)) = a

\* str.lower() on the characters the model uses.
Minuscula(c) ==
    CASE c = "A" -> "a"
      [] c = "C" -> "c"
      [] c = "M" -> "m"
      [] c = "E" -> "e"
      [] c = "N" -> "n"
      [] c = "X" -> "x"
      [] c = "Y" -> "y"
      [] OTHER -> c

Lower(s) == [k \in 1..Len(s) |-> Minuscula(s[k])]

\* str.strip(): leading and trailing blanks are removed.
Strip(s) ==
    LET pos == {k \in 1..Len(s) : s[k] # " "}
    IN  IF pos = {} THEN <<>>
        ELSE SubSeq(s, CHOOSE k \in pos : \A j \in pos : k <= j,
                       CHOOSE k \in pos : \A j \in pos : k >= j)

\* a is the beginning of b (str.startswith).
Prefixo(a, b) == Len(a) <= Len(b) /\ SubSeq(b, 1, Len(a)) = a

Abs(x) == IF x < 0 THEN -x ELSE x

\* The truth value Python gives a code or a name: None and '' are false.
Vazio(s) == s = <<>>

\* ------------------------------------------------------- Python values

\* The values normalizar_valor is handed and returns, each with its type.
\* An int is num * 10^exp, so that ints beyond the range of a float can be
\* written; a float is num * 10^exp with num not divisible by 10 (0 is
\* 0 * 10^0), or nan.
Texto(s) == [tipo |-> "str", s |-> s]
Inteiro(num, exp) == [tipo |-> "int", num |-> num, exp |-> exp]
None == [tipo |-> "None"]
NaN == [tipo |-> "float", num |-> 0, exp |-> 0, nan |-> TRUE]
OverflowError == [tipo |-> "OverflowError"]

\* No call was made yet.
Nada == [tipo |-> "nada"]

RECURSIVE Float(_, _)
Float(num, exp) ==
    IF num = 0 THEN [tipo |-> "float", num |-> 0, exp |-> 0, nan |-> FALSE]
    ELSE IF num % 10 = 0 THEN Float(num \div 10, exp + 1)
    ELSE [tipo |-> "float", num |-> num, exp |-> exp, nan |-> FALSE]

Zero == Float(0, 0)

\* float(n) of an int n = num * 10^exp with 1 <= |num| <= 9: the largest
\* float is 1.7976931348623157e308, beyond it float() raises OverflowError.
FloatDeInteiro(v) ==
    IF v.num # 0 /\ (v.exp > 308 \/ (v.exp = 308 /\ Abs(v.num) >= 2))
    THEN OverflowError
    ELSE Float(v.num, v.exp)

\* The number a string of digits writes.
ValorDoDigito(c) ==
    CHOOSE n \in 0..9 :
        <<"0", "1", "2", "3", "4", "5", "6", "7", "8", "9">>[n + 1] = c

RECURSIVE Numero(_)
Numero(d) ==
    IF d = <<>> THEN 0
    ELSE 10 * Numero(SubSeq(d, 1, Len(d) - 1)) + ValorDoDigito(d[Len(d)])

\* str.replace(velho, ''), velho of two characters: the occurrences are
\* removed from left to right, and what is left is not searched again.
RECURSIVE Remover2(_, _)
Remover2(s, velho) ==
    IF Len(s) < 2 THEN s
    ELSE IF SubSeq(s, 1, 2) = velho
         THEN Remover2(SubSeq(s, 3, Len(s)), velho)
         ELSE <<s[1]>> \o Remover2(Tail(s), velho)

\* str.replace(c, '') and str.replace(c, d) for single characters.
Remover(s, c) == SelectSeq(s, LAMBDA x : x # c)

Trocar(s, c, d) == [k \in 1..Len(s) |-> IF s[k] = c THEN d ELSE s[k]]

Tem(s, c) == \E k \in 1..Len(s) : s[k] = c

\* float(s) on the characters of the model: an optional minus sign, then
\* 'nan', or digits with at most one point and at least one digit.  The
\* string has no blanks left when normalizar_valor passes it.
ValueError == [tipo |-> "ValueError"]

FloatDeTexto(s) ==
    LET negativo == s # <<>> /\ s[1] = "-"
        corpo == IF negativo THEN Tail(s) ELSE s
        ponto == {k \in 1..Len(corpo) : corpo[k] = "."}
        digitos == Remover(corpo, ".")
        casas == IF ponto = {} THEN 0
                 ELSE Len(corpo) - (CHOOSE k \in ponto : TRUE)
    IN  IF corpo = <<"n", "a", "n">> THEN NaN
        ELSE IF /\ digitos # <<>>
                /\ \A k \in 1..Len(digitos) : digitos[k] \in Digitos
                /\ Cardinality(ponto) <= 1
             THEN Float((IF negativo THEN -1 ELSE 1) * Numero(digitos),
                        -casas)
             ELSE ValueError

\* normalizar_valor where the int and float branch treats a float as an
\* int of no use: it returns 0.0.
NormalizarValorSoInteiro(valor) ==
    IF valor.tipo = "int" THEN FloatDeInteiro(valor)
    ELSE IF valor.tipo = "str"
    THEN LET a == Strip(valor.s)
             b == Strip(Remover(Remover2(a, <<"R", "$">>), " "))
             c == IF Tem(b, ",") THEN Trocar(Remover(b, "."), ",", ".")
                  ELSE b
         IN  IF FloatDeTexto(c) = ValueError THEN Zero ELSE FloatDeTexto(c)
    ELSE Zero

NormalizarValor(valor) ==
    IF valor.tipo = "int" THEN FloatDeInteiro(valor)
    ELSE IF valor.tipo = "float" THEN valor
    ELSE IF valor.tipo = "str"
    THEN LET a == Strip(valor.s)
             b == Strip(Remover(Remover2(a, <<"R", "$">>), " "))
             c == IF Tem(b, ",") THEN Trocar(Remover(b, "."), ",", ".")
                  ELSE b
         IN  IF FloatDeTexto(c) = ValueError THEN Zero ELSE FloatDeTexto(c)
    ELSE Zero

\* ------------------------------------------------------- extracted fields

\* 'N/A': what extrair_com_gemini returns for an entity it did not find.
NA == <<"N", "/", "A">>

SemCodigo == <<>>
Cod12 == <<"1", "2">>
Cod1p2 == <<"1", ".", "2">>
Cod123 == <<"1", "2", "3">>
Cod23 == <<"2", "3">>

\* A code the service wrote as a JSON number: json.loads makes an int of
\* it, which is kept as its digits behind a mark.  str(codigo) gives the
\* digits, and so does Limpar, which drops the mark.
CodInt12 == <<"int", "1", "2">>

\* codigo[:25] can be taken: the code is a string.  It is taken only of a
\* code that is true, so never of None or ''.
Fatiavel(codigo) == Vazio(codigo) \/ codigo[1] # "int"

Acme == <<"A", "C", "M", "E">>
AcmeLtda == <<" ", "A", "c", "m", "e", " ", "l", "t", "d", "a">>
OutraEmpresa == <<"X", "Y">>

\* Results of extrair_com_gemini for a page of the proof file.  The first
\* is the dictionary it returns when the extraction failed.
DadosComprovante ==
    { [codigo |-> SemCodigo, valor |-> 0, empresa |-> NA],
      [codigo |-> Cod1p2, valor |-> 10000, empresa |-> Acme],
      [codigo |-> Cod123, valor |-> 10200, empresa |-> NA],
      [codigo |-> SemCodigo, valor |-> 41004, empresa |-> OutraEmpresa],
      [codigo |-> NA, valor |-> 10201, empresa |-> Acme] }

\* Results of extrair_com_gemini for an invoice file.
DadosBoleto ==
    { [codigo |-> SemCodigo, valor |-> 0, empresa |-> NA],
      [codigo |-> Cod12, valor |-> 10000, empresa |-> AcmeLtda],
      [codigo |-> SemCodigo, valor |-> 10000, empresa |-> AcmeLtda],
      [codigo |-> Cod23, valor |-> 40200, empresa |-> NA],
      [codigo |-> NA, valor |-> 10000, empresa |-> OutraEmpresa] }

\* Results of extrair_valor_do_nome for the invoice's file name: 0 when the
\* name holds no amount.
ValoresDoNome == {0, 10100}

\* --------------------------------------------------------------- cache

\* hashlib.md5(...).hexdigest() of the documents of the model.
Hashes == {"h1", "h2", "h3", "h4"}

\* cache.get(key) of a key that is not stored.
SemCache == [tipo |-> "None"]

CacheVazio == [h \in Hashes |-> SemCache]

\* ------------------------------------------------------------- the state

VARIABLES
    etapa,          \* the stage processar_reconciliacao is in
    comprovantes,   \* tabela.comprovantes: the proof pool, in page order
    usados,         \* tabela.usados: ids of the proofs marked used
    i,              \* number of invoices the loop has gone through
    resultados,     \* resultados: one entry per invoice that was processed
    status          \* data.status of the file_done events, in order

\* What the run as a whole adds to the pool and the results.
VARIABLES
    eventos,        \* the events the generator has yielded, in order
    zip_entradas,   \* the entries written to the archive (invoice indexes)
    z               \* number of results the archive loop has gone through

varsExecucao == <<eventos, zip_entradas, z>>

\* The state of extrair_com_gemini.
VARIABLES
    cache,          \* django cache: content hash -> stored result
    extracoes       \* the calls of extrair_com_gemini and of
                    \* extrair_valor_do_nome so far, in order

varsExtracao == <<cache, extracoes>>

\* normalizar_valor applied to one input.
VARIABLES
    entrada,        \* the argument
    saida           \* what the call, and the calls on its results, gave

varsValor == <<entrada, saida>>

vars == <<etapa, comprovantes, usados, i, resultados, status,
          varsExecucao, varsExtracao, varsValor>>

\* `comprovante: None` of an unmatched invoice.
Nenhum == [id |-> -1, codigo |-> SemCodigo, valor |-> 0, empresa |-> NA]

Init ==
    /\ etapa = "ETAPA1"
    /\ comprovantes = <<>>
    /\ usados = {}
    /\ i = 0
    /\ resultados = <<>>
    /\ status = <<>>
    /\ eventos = <<>>
    /\ zip_entradas = <<>>
    /\ z = 0
    /\ cache = CacheVazio
    /\ extracoes = <<>>
    /\ entrada = Nada
    /\ saida = <<>>

\* --------------------------------------------------- TabelaComprovantes

\* tabela.adicionar(id_comp, codigo, valor, valor_formatado, empresa, ...)
NovoItem(id_comp, dados) ==
    [id |-> id_comp, codigo |-> dados.codigo, valor |-> dados.valor,
     empresa |-> dados.empresa]

\* Amount pairs <<proof, invoice>> of the model that lie exactly 2% apart
\* and for which the source's float expression is false:
\* abs(410.04 - 402.0) = 8.04000000000002 > 402.0 * 0.02 = 8.040000000000001
\* (for 102.0 and 100.0 both sides are 2.0).
LimiteArredondado == {<<41004, 40200>>}

\* The comparison without abs(): a proof below the invoice amount is
\* accepted however far below it lies.
DentroDaToleranciaSemAbs(valor_comp, valor) ==
    100 * (valor_comp - valor) <= 2 * valor

\* abs(comp['valor'] - valor) <= valor * tolerancia_percent, with
\* TOLERANCIA_VALOR_PERCENT = 0.02, in cents.  Away from the exact 2% line
\* the rounding of the float product cannot change the comparison.
DentroDaTolerancia(valor_comp, valor) ==
    IF 100 * Abs(valor_comp - valor) = 2 * valor
    THEN <<valor_comp, valor>> \notin LimiteArredondado
    ELSE 100 * Abs(valor_comp - valor) < 2 * valor

\* The test on the codes with "contains" narrowed to "starts with".
CodigoCasaSoPrefixo(codigo, codigo_comp) ==
    /\ ~Vazio(codigo_comp)
    /\ \/ Limpar(codigo) = Limpar(codigo_comp)
       \/ Prefixo(Limpar(codigo), Limpar(codigo_comp))
       \/ Prefixo(Limpar(codigo_comp), Limpar(codigo))

\* The test of buscar_por_codigo on one proof: the proof has a code, and
\* the cleaned codes are equal or one contains the other.
CodigoCasa(codigo, codigo_comp) ==
    /\ ~Vazio(codigo_comp)
    /\ \/ Limpar(codigo) = Limpar(codigo_comp)
       \/ Contem(Limpar(codigo), Limpar(codigo_comp))
       \/ Contem(Limpar(codigo_comp), Limpar(codigo))

\* The logger line buscar_por_codigo writes for the proof it returns.
TipoDeMatch(codigo, codigo_comp) ==
    IF Limpar(codigo) = Limpar(codigo_comp) THEN "EXATO" ELSE "PARCIAL"

\* The test on the names in one direction only.
EmpresaCasaUmaDirecao(empresa, empresa_comp) ==
    Contem(Strip(Lower(empresa)), Strip(Lower(empresa_comp)))

\* The test of buscar_por_empresa_e_valor on the names.
EmpresaCasa(empresa, empresa_comp) ==
    \/ Contem(Strip(Lower(empresa)), Strip(Lower(empresa_comp)))
    \/ Contem(Strip(Lower(empresa_comp)), Strip(Lower(empresa)))

\* The first proof of the pool, in pool order, among those at the
\* positions pos.
Primeiro(tab, pos) ==
    IF pos = {} THEN Nenhum
    ELSE tab[CHOOSE k \in pos : \A j \in pos : k <= j]

BuscarPorCodigo(tab, us, codigo) ==
    IF Vazio(codigo) THEN Nenhum
    ELSE Primeiro(tab, {k \in 1..Len(tab) :
                          /\ tab[k].id \notin us
                          /\ CodigoCasa(codigo, tab[k].codigo)})

BuscarPorEmpresaEValor(tab, us, empresa, valor) ==
    IF Vazio(empresa) \/ empresa = NA \/ valor = 0 THEN Nenhum
    ELSE Primeiro(tab, {k \in 1..Len(tab) :
                          /\ tab[k].id \notin us
                          /\ EmpresaCasa(empresa, tab[k].empresa)
                          /\ DentroDaTolerancia(tab[k].valor, valor)})

\* Amount pairs <<proof, invoice>> of the model for which the float
\* abs(comp['valor'] - valor) is not the float of the exact difference:
\* abs(2.12 - 2.11) = 0.010000000000000231 lies above 0.01 and
\* abs(2.10 - 2.11) = 0.009999999999999787 below it.
DiferencaAcima == {<<212, 211>>}

DiferencaAbaixo == {<<210, 211>>}

\* abs(comp['valor'] - valor) in thousandths of a cent, which keeps the
\* order of the floats: on the other amounts of the model the float
\* differences are ordered as the exact ones
\* (abs(100.0 - 101.0) = abs(102.0 - 101.0) = 1.0).
Diferenca(valor_comp, valor) ==
    1000 * Abs(valor_comp - valor)
        + (IF <<valor_comp, valor>> \in DiferencaAcima THEN 1
           ELSE IF <<valor_comp, valor>> \in DiferencaAbaixo THEN -1
           ELSE 0)

\* The loop of buscar_por_valor from position k on; menor = -1 stands for
\* float('inf').
RECURSIVE VarrerPorValor(_, _, _, _, _, _)
VarrerPorValor(tab, us, valor, k, melhor, menor) ==
    IF k > Len(tab) THEN melhor
    ELSE IF /\ tab[k].id \notin us
            /\ DentroDaTolerancia(tab[k].valor, valor)
            /\ (menor = -1 \/ Diferenca(tab[k].valor, valor) < menor)
         THEN VarrerPorValor(tab, us, valor, k + 1, tab[k],
                             Diferenca(tab[k].valor, valor))
         ELSE VarrerPorValor(tab, us, valor, k + 1, melhor, menor)

\* buscar_por_valor that returns the first proof within the tolerance.
BuscarPorValorPrimeiro(tab, us, valor) ==
    IF valor = 0 THEN Nenhum
    ELSE Primeiro(tab, {k \in 1..Len(tab) :
                          /\ tab[k].id \notin us
                          /\ DentroDaTolerancia(tab[k].valor, valor)})

\* buscar_por_valor without its test of the used set.
BuscarPorValorSemUsados(tab, us, valor) ==
    IF valor = 0 THEN Nenhum
    ELSE VarrerPorValor(tab, {}, valor, 1, Nenhum, -1)

BuscarPorValor(tab, us, valor) ==
    IF valor = 0 THEN Nenhum
    ELSE VarrerPorValor(tab, us, valor, 1, Nenhum, -1)

\* ---------------------------------------------- processar_reconciliacao

\* The fallback on the file name that takes the amount of the name
\* whenever the name holds one.
ValorDoBoletoSempreNome(dados, valor_nome) ==
    IF valor_nome > 0 THEN valor_nome ELSE dados.valor

\* The fallback on the file name: only when Gemini gave no amount.
ValorDoBoleto(dados, valor_nome) ==
    IF dados.valor = 0 /\ valor_nome > 0 THEN valor_nome ELSE dados.valor

\* The strategies followed by a last resort: the first unused proof.
TentarMatchUltimoRecurso(tab, us, codigo, valor, empresa) ==
    LET porCodigo == IF ~Vazio(codigo)
                     THEN BuscarPorCodigo(tab, us, codigo) ELSE Nenhum
        porEmpresa == IF empresa # NA /\ valor > 0
                      THEN BuscarPorEmpresaEValor(tab, us, empresa, valor)
                      ELSE Nenhum
        porValor == IF valor > 0 THEN BuscarPorValor(tab, us, valor)
                    ELSE Nenhum
        resto == Primeiro(tab, {k \in 1..Len(tab) : tab[k].id \notin us})
    IN  IF porCodigo # Nenhum
        THEN [comprovante |-> porCodigo, metodo |-> "CODIGO"]
        ELSE IF porEmpresa # Nenhum
        THEN [comprovante |-> porEmpresa, metodo |-> "EMPRESA+VALOR"]
        ELSE IF porValor # Nenhum
        THEN [comprovante |-> porValor, metodo |-> "VALOR"]
        ELSE [comprovante |-> resto, metodo |-> "ULTIMO_RECURSO"]

\* The strategies with name+amount tried before the code.
TentarMatchEmpresaPrimeiro(tab, us, codigo, valor, empresa) ==
    LET porCodigo == IF ~Vazio(codigo)
                     THEN BuscarPorCodigo(tab, us, codigo) ELSE Nenhum
        porEmpresa == IF empresa # NA /\ valor > 0
                      THEN BuscarPorEmpresaEValor(tab, us, empresa, valor)
                      ELSE Nenhum
        porValor == IF valor > 0 THEN BuscarPorValor(tab, us, valor)
                    ELSE Nenhum
    IN  IF porEmpresa # Nenhum
        THEN [comprovante |-> porEmpresa, metodo |-> "EMPRESA+VALOR"]
        ELSE IF porCodigo # Nenhum
        THEN [comprovante |-> porCodigo, metodo |-> "CODIGO"]
        ELSE IF porValor # Nenhum
        THEN [comprovante |-> porValor, metodo |-> "VALOR"]
        ELSE [comprovante |-> Nenhum, metodo |-> "None"]

\* The strategies with the amount-only search tried before the code.
TentarMatchValorPrimeiro(tab, us, codigo, valor, empresa) ==
    LET porCodigo == IF ~Vazio(codigo)
                     THEN BuscarPorCodigo(tab, us, codigo) ELSE Nenhum
        porValor == IF valor > 0 THEN BuscarPorValor(tab, us, valor)
                    ELSE Nenhum
    IN  IF porValor # Nenhum
        THEN [comprovante |-> porValor, metodo |-> "VALOR"]
        ELSE IF porCodigo # Nenhum
        THEN [comprovante |-> porCodigo, metodo |-> "CODIGO"]
        ELSE [comprovante |-> Nenhum, metodo |-> "None"]

\* The three strategies tried for one invoice, in their order.
TentarMatch(tab, us, codigo, valor, empresa) ==
    LET porCodigo == IF ~Vazio(codigo)
                     THEN BuscarPorCodigo(tab, us, codigo) ELSE Nenhum
        porEmpresa == IF empresa # NA /\ valor > 0
                      THEN BuscarPorEmpresaEValor(tab, us, empresa, valor)
                      ELSE Nenhum
        porValor == IF valor > 0 THEN BuscarPorValor(tab, us, valor)
                    ELSE Nenhum
    IN  IF porCodigo # Nenhum
        THEN [comprovante |-> porCodigo, metodo |-> "CODIGO"]
        ELSE IF porEmpresa # Nenhum
        THEN [comprovante |-> porEmpresa, metodo |-> "EMPRESA+VALOR"]
        ELSE IF porValor # Nenhum
        THEN [comprovante |-> porValor, metodo |-> "VALOR"]
        ELSE [comprovante |-> Nenhum, metodo |-> "None"]

\* The status of the file_done event of a processed invoice.
StatusDoMatch(m) ==
    IF m.comprovante # Nenhum /\ m.metodo \in {"CODIGO", "EMPRESA+VALOR"}
    THEN "success" ELSE "warning"

\* marcar_usado that assigns the set instead of adding to it.
MarcarUsadoSubstitui(us, m) ==
    IF m.comprovante # Nenhum THEN {m.comprovante.id} ELSE us

\* marcar_usado called outside the test for a match: the id of an invoice
\* without proof is put into the set as well.
MarcarUsadoSempre(us, m) == us \cup {m.comprovante.id}

\* tabela.marcar_usado(id) for a match, nothing otherwise.
MarcarUsado(us, m) ==
    IF m.comprovante # Nenhum THEN us \cup {m.comprovante.id} ELSE us

\* A page of the proof file enters the pool with the fields handed to
\* adicionar; its id is its page index.  The fields range over every
\* result extrair_com_gemini can deliver, so that the searches are
\* exercised on pools of every content.
Adicionar(dados) ==
    /\ etapa = "ETAPA1"
    /\ Len(comprovantes) < MaxComprovantes
    /\ comprovantes' = Append(comprovantes, NovoItem(Len(comprovantes), dados))
    /\ UNCHANGED <<etapa, usados, i, resultados, status>>
    /\ UNCHANGED <<varsExecucao, varsExtracao, varsValor>>

\* The proof file is read through: the invoice loop starts.
IniciarEtapa2 ==
    /\ etapa = "ETAPA1"
    /\ etapa' = "ETAPA2"
    /\ UNCHANGED <<comprovantes, usados, i, resultados, status>>
    /\ UNCHANGED <<varsExecucao, varsExtracao, varsValor>>

\* One pass of the invoice loop that raises nothing: extraction, the
\* fallback on the file name, the three strategies, the result.
ProcessarBoleto(dados, valor_nome) ==
    /\ etapa = "ETAPA2"
    /\ i < MaxBoletos
    /\ LET valor == ValorDoBoleto(dados, valor_nome)
           m == TentarMatch(comprovantes, usados, dados.codigo, valor,
                            dados.empresa)
       IN  /\ usados' = MarcarUsado(usados, m)
           /\ resultados' = Append(resultados,
                  [boleto |-> i, boleto_codigo |-> dados.codigo,
                   boleto_valor |-> valor, boleto_empresa |-> dados.empresa,
                   comprovante |-> m.comprovante, metodo |-> m.metodo])
           /\ status' = Append(status, StatusDoMatch(m))
    /\ i' = i + 1
    /\ UNCHANGED <<etapa, comprovantes>>
    /\ UNCHANGED <<varsExecucao, varsExtracao, varsValor>>

\* One pass of the invoice loop in which reading or extracting the
\* invoice raises: the except branch reports it and the loop continues.
BoletoComErro ==
    /\ etapa = "ETAPA2"
    /\ i < MaxBoletos
    /\ i' = i + 1
    /\ status' = Append(status, "error")
    /\ UNCHANGED <<etapa, comprovantes, usados, resultados>>
    /\ UNCHANGED <<varsExecucao, varsExtracao, varsValor>>

\* The list of invoices is exhausted: the archive is built next.
IniciarEtapa3 ==
    /\ etapa = "ETAPA2"
    /\ etapa' = "ETAPA3"
    /\ UNCHANGED <<comprovantes, usados, i, resultados, status>>
    /\ UNCHANGED <<varsExecucao, varsExtracao, varsValor>>

Next ==
    \/ \E dados \in DadosComprovante : Adicionar(dados)
    \/ IniciarEtapa2
    \/ \E dados \in DadosBoleto, valor_nome \in ValoresDoNome :
          ProcessarBoleto(dados, valor_nome)
    \/ BoletoComErro
    \/ IniciarEtapa3

Spec == Init /\ [][Next]_vars

\* ---------------------------------------------------- extrair_com_gemini

\* The dictionary of a failure with 'N/A' for the code as for the name.
FalhaComNA == [codigo |-> NA, valor |-> 0, empresa |-> NA]

\* The dictionary extrair_com_gemini returns when it found no image, when
\* the answer was no JSON, and when anything raised.
Falha == [codigo |-> SemCodigo, valor |-> 0, empresa |-> NA]

\* 10^n.
RECURSIVE Pot10(_)
Pot10(n) == IF n = 0 THEN 1 ELSE 10 * Pot10(n - 1)

\* A float of at most two decimals, in cents (the unit of `valor` in the
\* pool and in the results).
Centavos(f) == f.num * Pot10(f.exp + 2)

\* The truth value Python gives dados.get('valor').
Verdadeiro(v) ==
    CASE v.tipo = "str" -> v.s # <<>>
      [] v.tipo \in {"int", "float"} -> v.num # 0 \/ (v.tipo = "float" /\ v.nan)
      [] OTHER -> FALSE

\* A document handed to extrair_com_gemini: the bytes of an invoice file,
\* or the BytesIO of a page of the proof file; it has a content hash, and
\* pdf2image makes an image of its content, makes none, or raises.
Documento(tipo, hash) ==
    [tipo |-> tipo, hash |-> hash,
     imagem |-> CASE hash = "h3" -> "erro"
                  [] hash = "h4" -> "nenhuma"
                  [] OTHER -> "ok"]

Documentos ==
    {Documento("bytes", h) : h \in Hashes}
        \cup {Documento("BytesIO", h) : h \in {"h1", "h2"}}

\* What model.generate_content does when it is called: it raises because
\* the service throttles (429) or for another reason, or it answers with
\* text that is no JSON, with JSON that is no object, or with an object.
Resposta(codigo, valor, empresa) ==
    [tipo |-> "json", codigo |-> codigo, valor |-> valor,
     empresa |-> empresa]

Respostas ==
    {[tipo |-> "throttled"], [tipo |-> "erro"], [tipo |-> "texto"],
     [tipo |-> "lista"],
     Resposta(Cod12, Texto(<<"1", "0", "0", ".", "0", "0">>), AcmeLtda),
     Resposta(SemCodigo, None, <<>>),
     Resposta(SemCodigo, Inteiro(1, 309), AcmeLtda)}

\* The service was not called.
SemResposta == [tipo |-> "nenhuma"]

\* The amount of the answer: lines 291-293.  OverflowError when
\* normalizar_valor raises.
ValorDaResposta(valor) ==
    IF /\ Verdadeiro(valor)
       /\ valor \notin {Texto(<<"0", ".", "0", "0">>),
                        Texto(<<"n", "u", "l", "l">>), None, Texto(NA)}
    THEN NormalizarValor(valor)
    ELSE Zero

\* What the answer of the service is turned into: lines 277-302.
ResultadoDaResposta(resp) ==
    IF resp.tipo # "json" \/ ValorDaResposta(resp.valor) = OverflowError
    THEN Falha
    ELSE [codigo |-> resp.codigo,
          valor |-> Centavos(ValorDaResposta(resp.valor)),
          empresa |-> IF Vazio(resp.empresa) THEN NA ELSE resp.empresa]

\* The answer is stored: no exception was raised up to cache.set.
Guardado(resp) ==
    resp.tipo = "json" /\ ValorDaResposta(resp.valor) # OverflowError

\* extrair_com_gemini that hashes a BytesIO as hash_pdf does.
ExtrairComGeminiComBytesIO(doc, resp, c) ==
    IF c[doc.hash] # SemCache
    THEN [resultado |-> c[doc.hash], chamadas |-> 0, cache |-> c]
    ELSE IF doc.imagem # "ok"
    THEN [resultado |-> Falha, chamadas |-> 0, cache |-> c]
    ELSE [resultado |-> ResultadoDaResposta(resp), chamadas |-> 1,
          cache |-> IF Guardado(resp)
                    THEN [c EXCEPT ![doc.hash] = ResultadoDaResposta(resp)]
                    ELSE c]

\* extrair_com_gemini that looks nothing up in the cache.
ExtrairComGeminiSemCache(doc, resp, c) ==
    IF doc.tipo # "bytes"
    THEN [resultado |-> Falha, chamadas |-> 0, cache |-> c]
    ELSE IF doc.imagem # "ok"
    THEN [resultado |-> Falha, chamadas |-> 0, cache |-> c]
    ELSE [resultado |-> ResultadoDaResposta(resp), chamadas |-> 1,
          cache |-> IF Guardado(resp)
                    THEN [c EXCEPT ![doc.hash] = ResultadoDaResposta(resp)]
                    ELSE c]

\* extrair_com_gemini(doc, use_cache=True) with the cache c, when the
\* service would answer resp: what it returns, how often it called the
\* service, and the cache it leaves.  For a document that is not bytes the
\* hash is taken from open(doc), which raises for a BytesIO: the except of
\* line 315 returns the dictionary of a failure.
ExtrairComGemini(doc, resp, c) ==
    IF doc.tipo # "bytes"
    THEN [resultado |-> Falha, chamadas |-> 0, cache |-> c]
    ELSE IF c[doc.hash] # SemCache
    THEN [resultado |-> c[doc.hash], chamadas |-> 0, cache |-> c]
    ELSE IF doc.imagem # "ok"
    THEN [resultado |-> Falha, chamadas |-> 0, cache |-> c]
    ELSE [resultado |-> ResultadoDaResposta(resp), chamadas |-> 1,
          cache |-> IF Guardado(resp)
                    THEN [c EXCEPT ![doc.hash] = ResultadoDaResposta(resp)]
                    ELSE c]

\* The entry of `extracoes` for one call: for whom it was made (a page, an
\* invoice, or the pair <<"", 0>> for a call on its own), the document, the answer of the service if it was called, and what the call
\* gave.
Chamada(quem, doc, resp, c) ==
    [quem |-> quem, doc |-> doc,
     resp |-> IF ExtrairComGemini(doc, resp, c).chamadas = 0
              THEN SemResposta ELSE resp,
     resultado |-> ExtrairComGemini(doc, resp, c).resultado,
     chamadas |-> ExtrairComGemini(doc, resp, c).chamadas]

\* The entry of `extracoes` for a key that expired (CACHE_TTL).
Expirou(h) ==
    [quem |-> <<"CACHE_TTL", 0>>, doc |-> Documento("", h), resp |-> SemResposta,
     resultado |-> Falha, chamadas |-> 0]

InitExtracao ==
    /\ etapa = "EXTRACAO"
    /\ comprovantes = <<>>
    /\ usados = {}
    /\ i = 0
    /\ resultados = <<>>
    /\ status = <<>>
    /\ eventos = <<>>
    /\ zip_entradas = <<>>
    /\ z = 0
    /\ cache = CacheVazio
    /\ extracoes = <<>>
    /\ entrada = Nada
    /\ saida = <<>>

\* One call of extrair_com_gemini.
Extrair(doc, resp) ==
    /\ etapa = "EXTRACAO"
    /\ Len(extracoes) < MaxExtracoes
    /\ extracoes' = Append(extracoes, Chamada(<<"", 0>>, doc, resp, cache))
    /\ cache' = ExtrairComGemini(doc, resp, cache).cache
    /\ UNCHANGED <<etapa, comprovantes, usados, i, resultados, status>>
    /\ UNCHANGED <<varsExecucao, varsValor>>

\* A stored result reaches the end of its lifetime.
Expirar(h) ==
    /\ etapa = "EXTRACAO"
    /\ Len(extracoes) < MaxExtracoes
    /\ cache[h] # SemCache
    /\ cache' = [cache EXCEPT ![h] = SemCache]
    /\ extracoes' = Append(extracoes, Expirou(h))
    /\ UNCHANGED <<etapa, comprovantes, usados, i, resultados, status>>
    /\ UNCHANGED <<varsExecucao, varsValor>>

NextExtracao ==
    \/ \E doc \in Documentos, resp \in Respostas : Extrair(doc, resp)
    \/ \E h \in Hashes : Expirar(h)

SpecExtracao == InitExtracao /\ [][NextExtracao]_vars

\* ------------------------------------------- the run as a whole

\* emit(tipo, dados): the event as it is yielded.
Evento(tipo, dados) == [type |-> tipo, data |-> dados]

\* emit('log', ...): the text is kept as a short tag.
Log(msg) == Evento("log", [msg |-> msg])

\* Invoices are processed in lots of BATCH_SIZE.
BATCH_SIZE == 10

\* The contents of the invoice files of a run, and the answers the service
\* has for them.
HashesDeBoleto == {"h1", "h3"}

RespostasDaExecucao ==
    {[tipo |-> "throttled"], [tipo |-> "texto"],
     Resposta(Cod12, Texto(<<"1", "0", "0", ".", "0", "0">>), AcmeLtda),
     Resposta(SemCodigo, None, <<>>)}

\* The answers the service has for the pages of the proof file: the same,
\* and one whose code is a number.
RespostasDePagina ==
    RespostasDaExecucao
        \cup {Resposta(CodInt12, Texto(<<"1", "0", "0", ".", "0", "0">>),
                       AcmeLtda)}

\* The cache a run finds: empty, or holding what an earlier run stored.
CachesIniciais ==
    {CacheVazio,
     [CacheVazio EXCEPT !["h1"] =
         [codigo |-> SemCodigo, valor |-> 10000, empresa |-> NA]]}

\* The entry of `extracoes` for a call of extrair_valor_do_nome.
ChamadaDoNome(quem, valor_nome) ==
    [quem |-> quem, doc |-> Documento("nome", "h1"), resp |-> SemResposta,
     resultado |-> [codigo |-> SemCodigo, valor |-> valor_nome,
                    empresa |-> NA],
     chamadas |-> 0]

\* The state when processar_reconciliacao is called.
InitExecucao ==
    /\ etapa = "INICIO"
    /\ comprovantes = <<>>
    /\ usados = {}
    /\ i = 0
    /\ resultados = <<>>
    /\ status = <<>>
    /\ eventos = <<>>
    /\ zip_entradas = <<>>
    /\ z = 0
    /\ cache \in CachesIniciais
    /\ extracoes = <<>>
    /\ entrada = Nada
    /\ saida = <<>>

\* PdfReader(caminho_comprovantes) opens the proof file.
LerComprovantes ==
    /\ etapa = "INICIO"
    /\ etapa' = "ETAPA1"
    /\ eventos' = eventos \o <<Log("Iniciando"), Log("ETAPA 1"),
                               Log("Total de paginas"), Log("Usando Gemini")>>
    /\ UNCHANGED <<comprovantes, usados, i, resultados, status>>
    /\ UNCHANGED <<zip_entradas, z, varsExtracao, varsValor>>

\* The except of line 508 that logs the error and goes on to the invoices.
FalhaAoLerSemReturn ==
    /\ etapa = "INICIO"
    /\ etapa' = "ETAPA2"
    /\ eventos' = eventos \o <<Log("Iniciando"), Log("ETAPA 1"),
                               Log("ERRO ao ler comprovantes")>>
    /\ UNCHANGED <<comprovantes, usados, i, resultados, status>>
    /\ UNCHANGED <<zip_entradas, z, varsExtracao, varsValor>>

\* PdfReader(caminho_comprovantes) raises: the except of line 508 logs
\* the error and the generator returns.
FalhaAoLer ==
    /\ etapa = "INICIO"
    /\ etapa' = "ABORTADO"
    /\ eventos' = eventos \o <<Log("Iniciando"), Log("ETAPA 1"),
                               Log("ERRO ao ler comprovantes")>>
    /\ UNCHANGED <<comprovantes, usados, i, resultados, status>>
    /\ UNCHANGED <<zip_entradas, z, varsExtracao, varsValor>>

\* The pages of the proof file the loop has gone through.
PaginasLidas ==
    Cardinality({k \in 1..Len(extracoes) :
                    extracoes[k].quem[1] = "comprovante"})

\* One page of the proof file: it is written to a BytesIO, which is handed
\* to extrair_com_gemini, and what comes back enters the pool.  The status
\* line takes codigo[:25] of a code that is true: for a code that is no
\* string this raises after adicionar, and the inner except (line 495)
\* logs the error and calls adicionar again, with the fields of a failure.
ExtrairPagina(resp) ==
    /\ etapa = "ETAPA1"
    /\ PaginasLidas < MaxComprovantes
    /\ LET idx == PaginasLidas
           doc == Documento("BytesIO", "h1")
           e == ExtrairComGemini(doc, resp, cache)
       IN  /\ comprovantes' =
                  IF Fatiavel(e.resultado.codigo)
                  THEN Append(comprovantes, NovoItem(idx, e.resultado))
                  ELSE comprovantes \o <<NovoItem(idx, e.resultado),
                                         NovoItem(idx, Falha)>>
           /\ cache' = e.cache
           /\ extracoes' = Append(extracoes,
                  Chamada(<<"comprovante", idx>>, doc, resp, cache))
           /\ eventos' = eventos \o
                  (IF Fatiavel(e.resultado.codigo)
                   THEN <<Log("Analisando pagina"), Log("Pag"),
                          Evento("comp_status", [index |-> idx])>>
                   ELSE <<Log("Analisando pagina"), Log("Erro na pagina")>>)
    /\ UNCHANGED <<etapa, usados, i, resultados, status>>
    /\ UNCHANGED <<zip_entradas, z, varsValor>>

\* Writing a page to its BytesIO raises: the except of line 508 again.
FalhaNaPagina ==
    /\ etapa = "ETAPA1"
    /\ PaginasLidas < MaxComprovantes
    /\ etapa' = "ABORTADO"
    /\ eventos' = Append(eventos, Log("ERRO ao ler comprovantes"))
    /\ UNCHANGED <<comprovantes, usados, i, resultados, status>>
    /\ UNCHANGED <<zip_entradas, z, varsExtracao, varsValor>>

\* The pages are through: ETAPA 2 is announced.
ComecarBoletos ==
    /\ etapa = "ETAPA1"
    /\ etapa' = "ETAPA2"
    /\ eventos' = eventos \o <<Log(""), Log("ETAPA 2"),
                               Log("Total de boletos"), Log("Lotes")>>
    /\ UNCHANGED <<comprovantes, usados, i, resultados, status>>
    /\ UNCHANGED <<zip_entradas, z, varsExtracao, varsValor>>

\* The log of the strategy that found the proof.
LogDoMatch(m) ==
    IF m.comprovante = Nenhum THEN Log("SEM MATCH ENCONTRADO")
    ELSE CASE m.metodo = "CODIGO" -> Log("MATCH por CODIGO")
           [] m.metodo = "EMPRESA+VALOR" -> Log("MATCH por EMPRESA + VALOR")
           [] OTHER -> Log("MATCH por VALOR")

\* The file name is asked for the amount: Gemini gave none.
ConsultaNome(dados) == dados.valor = 0

\* One invoice that raises nothing: its bytes are read and handed to
\* extrair_com_gemini, the file name is asked for the amount if there is
\* none, the three strategies are tried and the result is kept.
ReconciliarBoleto(hash, resp, valor_nome) ==
    /\ etapa = "ETAPA2"
    /\ i < MaxBoletos
    /\ LET doc == Documento("bytes", hash)
           e == ExtrairComGemini(doc, resp, cache)
           dados == e.resultado
           valor == ValorDoBoleto(dados, valor_nome)
           m == TentarMatch(comprovantes, usados, dados.codigo, valor,
                            dados.empresa)
       IN  /\ cache' = e.cache
           /\ extracoes' = extracoes
                  \o <<Chamada(<<"boleto", i>>, doc, resp, cache)>>
                  \o (IF ConsultaNome(dados)
                      THEN <<ChamadaDoNome(<<"nome", i>>, valor_nome)>>
                      ELSE <<>>)
           /\ usados' = MarcarUsado(usados, m)
           /\ resultados' = Append(resultados,
                  [boleto |-> i, boleto_codigo |-> dados.codigo,
                   boleto_valor |-> valor, boleto_empresa |-> dados.empresa,
                   comprovante |-> m.comprovante, metodo |-> m.metodo])
           /\ status' = Append(status, StatusDoMatch(m))
           /\ eventos' = eventos
                  \o <<Evento("file_start", [filename |-> i]), Log(""),
                       Log("Boleto"), Log("Analisando boleto")>>
                  \o (IF ConsultaNome(dados) /\ valor_nome > 0
                      THEN <<Log("Fallback")>> ELSE <<>>)
                  \o <<Log("Codigo"), Log("Valor"), Log("Empresa"),
                       LogDoMatch(m),
                       Evento("file_done", [filename |-> i,
                                            status |-> StatusDoMatch(m)])>>
                  \o (IF (i + 1) % BATCH_SIZE = 0
                      THEN <<Log("Lote finalizado")>> ELSE <<>>)
    /\ i' = i + 1
    /\ UNCHANGED <<etapa, comprovantes, zip_entradas, z, varsValor>>

\* The except of line 630 with an event of its own for the error.
FalhaNoBoletoComEventoDeErro ==
    /\ etapa = "ETAPA2"
    /\ i < MaxBoletos
    /\ i' = i + 1
    /\ status' = Append(status, "error")
    /\ eventos' = eventos
           \o <<Evento("file_start", [filename |-> i]), Log(""),
                Log("Boleto"), Evento("error", [msg |-> "ERRO"]),
                Evento("file_done", [filename |-> i, status |-> "error"])>>
    /\ UNCHANGED <<etapa, comprovantes, usados, resultados>>
    /\ UNCHANGED <<zip_entradas, z, varsExtracao, varsValor>>

\* The except of line 630 that goes to the next invoice without the
\* file_done event.
FalhaNoBoletoSemFileDone ==
    /\ etapa = "ETAPA2"
    /\ i < MaxBoletos
    /\ i' = i + 1
    /\ status' = Append(status, "error")
    /\ eventos' = eventos
           \o <<Evento("file_start", [filename |-> i]), Log(""),
                Log("Boleto"), Log("ERRO")>>
    /\ UNCHANGED <<etapa, comprovantes, usados, resultados>>
    /\ UNCHANGED <<zip_entradas, z, varsExtracao, varsValor>>

\* One invoice whose file cannot be read: the except of line 630 reports
\* it and the loop goes on; no result is kept for it.
FalhaNoBoleto ==
    /\ etapa = "ETAPA2"
    /\ i < MaxBoletos
    /\ i' = i + 1
    /\ status' = Append(status, "error")
    /\ eventos' = eventos
           \o <<Evento("file_start", [filename |-> i]), Log(""),
                Log("Boleto"), Log("ERRO"),
                Evento("file_done", [filename |-> i, status |-> "error"])>>
    /\ UNCHANGED <<etapa, comprovantes, usados, resultados>>
    /\ UNCHANGED <<zip_entradas, z, varsExtracao, varsValor>>

\* The invoices are through: ETAPA 3 is announced and the archive opened.
ComecarZip ==
    /\ etapa = "ETAPA2"
    /\ etapa' = "ETAPA3"
    /\ eventos' = eventos \o <<Log(""), Log("ETAPA 3")>>
    /\ UNCHANGED <<comprovantes, usados, i, resultados, status>>
    /\ UNCHANGED <<zip_entradas, z, varsExtracao, varsValor>>

\* Entries written to the archive while the invoice loop is still running.
GravarEntradaNoLaco ==
    /\ etapa \in {"ETAPA2", "ETAPA3"}
    /\ z < Len(resultados)
    /\ z' = z + 1
    /\ zip_entradas' = Append(zip_entradas, resultados[z + 1].boleto)
    /\ UNCHANGED <<etapa, comprovantes, usados, i, resultados, status>>
    /\ UNCHANGED <<eventos, varsExtracao, varsValor>>

\* The next result is written to the archive under the invoice's name.
GravarEntrada ==
    /\ etapa = "ETAPA3"
    /\ z < Len(resultados)
    /\ z' = z + 1
    /\ zip_entradas' = Append(zip_entradas, resultados[z + 1].boleto)
    /\ UNCHANGED <<etapa, comprovantes, usados, i, resultados, status>>
    /\ UNCHANGED <<eventos, varsExtracao, varsValor>>

\* Putting the next result together raises (PdfReader does not read the
\* invoice): the except of line 674 logs it and goes to the next result.
FalhaNaEntrada ==
    /\ etapa = "ETAPA3"
    /\ z < Len(resultados)
    /\ z' = z + 1
    /\ eventos' = Append(eventos, Log("ERRO ao gerar"))
    /\ UNCHANGED <<etapa, comprovantes, usados, i, resultados, status>>
    /\ UNCHANGED <<zip_entradas, varsExtracao, varsValor>>

\* The archive itself raises: the except of line 679 logs it and the
\* generator returns.
FalhaNoZip ==
    /\ etapa = "ETAPA3"
    /\ etapa' = "ABORTADO"
    /\ eventos' = Append(eventos, Log("ERRO ao criar ZIP"))
    /\ UNCHANGED <<comprovantes, usados, i, resultados, status>>
    /\ UNCHANGED <<zip_entradas, z, varsExtracao, varsValor>>

\* The numbers of the finish event with the proofs left over counted
\* against the invoices instead of the proofs marked used.
ResumoPorResultados ==
    [total |-> Len(resultados),
     matches |-> Cardinality({k \in 1..Len(resultados) :
                                 resultados[k].comprovante # Nenhum}),
     sem_match |-> Len(resultados)
         - Cardinality({k \in 1..Len(resultados) :
                           resultados[k].comprovante # Nenhum}),
     matches_codigo |-> Cardinality({k \in 1..Len(resultados) :
                                        resultados[k].metodo = "CODIGO"}),
     matches_empresa_valor |->
         Cardinality({k \in 1..Len(resultados) :
                         resultados[k].metodo = "EMPRESA+VALOR"}),
     matches_valor |-> Cardinality({k \in 1..Len(resultados) :
                                       resultados[k].metodo = "VALOR"}),
     comprovantes_disponiveis |-> Len(comprovantes) - Len(resultados)]

\* The numbers of the finish event.
Resumo ==
    [total |-> Len(resultados),
     matches |-> Cardinality({k \in 1..Len(resultados) :
                                 resultados[k].comprovante # Nenhum}),
     sem_match |-> Len(resultados)
         - Cardinality({k \in 1..Len(resultados) :
                           resultados[k].comprovante # Nenhum}),
     matches_codigo |-> Cardinality({k \in 1..Len(resultados) :
                                        resultados[k].metodo = "CODIGO"}),
     matches_empresa_valor |->
         Cardinality({k \in 1..Len(resultados) :
                         resultados[k].metodo = "EMPRESA+VALOR"}),
     matches_valor |-> Cardinality({k \in 1..Len(resultados) :
                                       resultados[k].metodo = "VALOR"}),
     comprovantes_disponiveis |-> Len(comprovantes) - Cardinality(usados)]

\* The archive is closed and written to the downloads folder, the summary
\* is logged and the finish event ends the run.
Finalizar ==
    /\ etapa = "ETAPA3"
    /\ z = Len(resultados)
    /\ etapa' = "FIM"
    /\ eventos' = eventos
           \o <<Log(""), Log("PROCESSO CONCLUIDO"), Log("RESUMO"),
                Log("Total de boletos"), Log("Matches encontrados"),
                Log("Por codigo"), Log("Por empresa+valor"),
                Log("Por valor"), Log("Sem match"), Log(""),
                Log("Comprovantes"), Log("Comprovantes usados"),
                Log("Comprovantes nao usados"), Log("Arquivo gerado"),
                Evento("finish", Resumo)>>
    /\ UNCHANGED <<comprovantes, usados, i, resultados, status>>
    /\ UNCHANGED <<zip_entradas, z, varsExtracao, varsValor>>

\* Writing the archive to the downloads folder raises (lines 688-695 lie
\* in no try): the exception leaves the generator.
FalhaAoGravar ==
    /\ etapa = "ETAPA3"
    /\ z = Len(resultados)
    /\ etapa' = "EXCECAO"
    /\ UNCHANGED <<comprovantes, usados, i, resultados, status>>
    /\ UNCHANGED <<varsExecucao, varsExtracao, varsValor>>

NextExecucao ==
    \/ LerComprovantes
    \/ FalhaAoLer
    \/ \E resp \in RespostasDePagina : ExtrairPagina(resp)
    \/ FalhaNaPagina
    \/ ComecarBoletos
    \/ \E hash \in HashesDeBoleto, resp \in RespostasDaExecucao,
          valor_nome \in ValoresDoNome :
          ReconciliarBoleto(hash, resp, valor_nome)
    \/ FalhaNoBoleto
    \/ ComecarZip
    \/ GravarEntrada
    \/ FalhaNaEntrada
    \/ FalhaNoZip
    \/ Finalizar
    \/ FalhaAoGravar

SpecExecucao == InitExecucao /\ [][NextExecucao]_vars

\* ------------------------------------------- normalizar_valor on its own

\* The characters of the strings handed to normalizar_valor and of the
\* codes handed to buscar_por_codigo.
Alfabeto == {"0", "1", "5", ".", ",", "-", " ", "R", "$", "n", "a"}

\* Every string over the alphabet up to the largest length.
TextosCurtos == UNION {[1..n -> Alfabeto] : n \in 0..MaxTexto}

\* Amounts, in cents, whose written forms are tried.
Quantias == {123456, 100000, 40200, 1050, 5}

\* The decimal digits of n, at least `largura` of them.
RECURSIVE Algarismos(_, _)
Algarismos(n, largura) ==
    IF n < 10 /\ largura <= 1
    THEN <<<<"0", "1", "2", "3", "4", "5", "6", "7", "8", "9">>[n + 1]>>
    ELSE Algarismos(n \div 10, largura - 1)
             \o <<<<"0", "1", "2", "3", "4", "5", "6", "7", "8", "9">>[(n % 10) + 1]>>

\* The digits d with a point before every group of three from the right.
RECURSIVE Milhares(_)
Milhares(d) ==
    IF Len(d) <= 3 THEN d
    ELSE Milhares(SubSeq(d, 1, Len(d) - 3)) \o <<".">>
             \o SubSeq(d, Len(d) - 2, Len(d))

\* The forms of an amount of q cents: 1.234,56 and 1234,56 and 1234.56.
FormaBrasileira(q) ==
    Milhares(Algarismos(q \div 100, 1)) \o <<",">> \o Algarismos(q % 100, 2)

FormaVirgula(q) == Algarismos(q \div 100, 1) \o <<",">> \o Algarismos(q % 100, 2)

FormaPonto(q) == Algarismos(q \div 100, 1) \o <<".">> \o Algarismos(q % 100, 2)

\* A form as it stands, with the currency symbol, and with blanks around.
Enfeites(f) ==
    {f, <<"R", "$">> \o f, <<"R", "$", " ">> \o f,
     <<" ", "R", "$", " ">> \o f \o <<" ">>, <<" ">> \o f \o <<" ">>}

Formas(q) ==
    Enfeites(FormaBrasileira(q)) \cup Enfeites(FormaVirgula(q))
        \cup Enfeites(FormaPonto(q))

\* The arguments of normalizar_valor: strings, ints (1 and 10^308 are
\* floats, 2 * 10^308 and 10^309 are not), floats and None.
Entradas ==
    {Texto(t) : t \in TextosCurtos}
        \cup {Texto(f) : f \in UNION {Formas(q) : q \in Quantias}}
        \cup {Inteiro(1, 0), Inteiro(-5, 2), Inteiro(1, 308), Inteiro(2, 308),
              Inteiro(1, 309)}
        \cup {Float(15, -1), Zero, NaN, None}

\* The state before normalizar_valor is called on one argument, or before
\* the code of an invoice or of a proof is cleaned by buscar_por_codigo.
InitValor ==
    /\ etapa \in {"VALOR", "CODIGO"}
    /\ comprovantes = <<>>
    /\ usados = {}
    /\ i = 0
    /\ resultados = <<>>
    /\ status = <<>>
    /\ eventos = <<>>
    /\ zip_entradas = <<>>
    /\ z = 0
    /\ cache = CacheVazio
    /\ extracoes = <<>>
    /\ entrada \in IF etapa = "VALOR" THEN Entradas
                   ELSE {Texto(t) : t \in TextosCurtos}
    /\ saida = <<>>

\* normalizar_valor(entrada), and then normalizar_valor of what the call
\* before returned; a call that raised returned nothing to go on with.
Normalizar ==
    /\ etapa = "VALOR"
    /\ Len(saida) < 2
    /\ saida # <<>> => saida[Len(saida)] # OverflowError
    /\ saida' = Append(saida, NormalizarValor(IF saida = <<>> THEN entrada
                                              ELSE saida[Len(saida)]))
    /\ UNCHANGED <<etapa, comprovantes, usados, i, resultados, status>>
    /\ UNCHANGED <<varsExecucao, varsExtracao, entrada>>

\* re.sub(r'[^0-9]', '', str(codigo)) on the code, and then on what it gave.
LimparCodigo ==
    /\ etapa = "CODIGO"
    /\ Len(saida) < 2
    /\ saida' = Append(saida, Texto(Limpar(IF saida = <<>> THEN entrada.s
                                           ELSE saida[Len(saida)].s)))
    /\ UNCHANGED <<etapa, comprovantes, usados, i, resultados, status>>
    /\ UNCHANGED <<varsExecucao, varsExtracao, entrada>>

NextValor ==
    \/ Normalizar
    \/ LimparCodigo

SpecValor == InitValor /\ [][NextValor]_vars

\* ------------------------------------------------ reading the results

\* ------------------------------------------- buscar_por_valor on its own

\* The amounts of the proofs of a pool and the amounts searched for, in
\* cents.
ValoresDoPool == {0, 210, 212, 10000, 10200, 41004}

ValoresBuscados == {0, 211, 10100, 40200}

\* The pools of up to MaxComprovantes proofs without code and name, each
\* under its page index.
Pools ==
    UNION {{[k \in 1..n |-> NovoItem(k - 1, [codigo |-> SemCodigo,
                                             valor |-> f[k],
                                             empresa |-> NA])] :
               f \in [1..n -> ValoresDoPool]} : n \in 0..MaxComprovantes}

\* The amount buscar_por_valor is called with.
Valor(v) == [tipo |-> "valor", valor |-> v]

\* A pool of which some proofs are marked used, before a search.
InitBusca ==
    /\ etapa = "BUSCA"
    /\ comprovantes \in Pools
    /\ usados \in SUBSET {comprovantes[k].id : k \in 1..Len(comprovantes)}
    /\ i = 0
    /\ resultados = <<>>
    /\ status = <<>>
    /\ eventos = <<>>
    /\ zip_entradas = <<>>
    /\ z = 0
    /\ cache = CacheVazio
    /\ extracoes = <<>>
    /\ entrada = Nada
    /\ saida = <<>>

\* tabela.buscar_por_valor(valor).
Buscar(v) ==
    /\ etapa = "BUSCA"
    /\ saida = <<>>
    /\ entrada' = Valor(v)
    /\ saida' = <<BuscarPorValor(comprovantes, usados, v)>>
    /\ UNCHANGED <<etapa, comprovantes, usados, i, resultados, status>>
    /\ UNCHANGED <<varsExecucao, varsExtracao>>

NextBusca == \E v \in ValoresBuscados : Buscar(v)

SpecBusca == InitBusca /\ [][NextBusca]_vars

\* The positions of resultados that hold a pairing.
Casados == {k \in 1..Len(resultados) : resultados[k].comprovante # Nenhum}

\* The ids of the proofs paired by the results before position k: the
\* proofs that were used when the invoice of position k was processed.
UsadosAntes(k) ==
    {resultados[j].comprovante.id : j \in {n \in Casados : n < k}}

\* The positions of the pool that were unused when the invoice of result
\* k was processed.
LivresAntes(k) ==
    {n \in 1..Len(comprovantes) : comprovantes[n].id \notin UsadosAntes(k)}

Menor(pos) == CHOOSE k \in pos : \A j \in pos : k <= j

\* The digits of one code are a contiguous part of the digits of the other.
DigitosContidos(a, b) ==
    \/ Contem(Limpar(a), Limpar(b))
    \/ Contem(Limpar(b), Limpar(a))

\* The invoice code and the proof code are both present and the digits of
\* one are a contiguous part of the digits of the other.
CasaPorCodigo(codigo, codigo_comp) ==
    /\ codigo # <<>>
    /\ codigo_comp # <<>>
    /\ DigitosContidos(codigo, codigo_comp)

\* The amounts are at most 2% of the invoice amount apart, in exact
\* arithmetic.
Ate2PorCento(valor_comp, valor) == 100 * Abs(valor_comp - valor) <= 2 * valor

\* The positions of the unused proofs that match the invoice of result k
\* by code when that invoice is processed.
CandidatosPorCodigo(k) ==
    {n \in LivresAntes(k) :
        CasaPorCodigo(resultados[k].boleto_codigo, comprovantes[n].codigo)}

\* ---------------------------------------------------------------- C1

\* C1: no proof and no invoice appears in more than one recorded pairing,
\* and no search hands out a proof that is already marked used.
C1_UmUsoNoMaximo ==
    /\ \A j \in Casados : \A k \in Casados :
          j # k => /\ resultados[j].comprovante.id # resultados[k].comprovante.id
                   /\ resultados[j].boleto # resultados[k].boleto
    /\ \A d \in DadosBoleto :
          /\ BuscarPorCodigo(comprovantes, usados, d.codigo).id \notin usados
          /\ BuscarPorEmpresaEValor(comprovantes, usados, d.empresa,
                                    d.valor).id \notin usados
          /\ BuscarPorValor(comprovantes, usados, d.valor).id \notin usados

\* Two invoices are paired, the later one with a code that also matches
\* the proof the earlier one had taken.
C1_Testemunha ==
    \E j \in Casados : \E k \in Casados :
        /\ j < k
        /\ CasaPorCodigo(resultados[k].boleto_codigo,
                         resultados[j].comprovante.codigo)

\* ---------------------------------------------------------------- C2

\* C2 as claimed: a proof paired by an amount strategy never matches, by
\* code, the digits of another invoice of the run that was still unmatched
\* at that moment (processed later, or processed earlier and left
\* unmatched).
C2_PassesSobreTodos ==
    \A j \in Casados : \A k \in 1..Len(resultados) :
        (/\ resultados[j].metodo \in {"EMPRESA+VALOR", "VALOR"}
         /\ k # j
         /\ (k > j \/ resultados[k].comprovante = Nenhum)
         /\ Limpar(resultados[k].boleto_codigo) # <<>>)
        => ~CasaPorCodigo(resultados[k].boleto_codigo,
                          resultados[j].comprovante.codigo)

\* C2 amended: the strategies run in the fixed order for each invoice in
\* turn, so a proof paired by an amount strategy never matches, by code,
\* the invoice it is paired with nor an invoice processed earlier and left
\* unmatched; invoices processed later are not looked at.
C2_PassesPorBoleto ==
    \A j \in Casados : \A k \in 1..j :
        (/\ resultados[j].metodo \in {"EMPRESA+VALOR", "VALOR"}
         /\ (k = j \/ resultados[k].comprovante = Nenhum))
        => ~CasaPorCodigo(resultados[k].boleto_codigo,
                          resultados[j].comprovante.codigo)

\* An invoice was paired by amount with a proof that carries a code, after
\* an earlier invoice that carries a code was left unmatched.
C2_Testemunha ==
    \E j \in Casados : \E k \in 1..Len(resultados) :
        /\ k < j
        /\ resultados[j].metodo \in {"EMPRESA+VALOR", "VALOR"}
        /\ resultados[k].comprovante = Nenhum
        /\ Limpar(resultados[k].boleto_codigo) # <<>>
        /\ Limpar(resultados[j].comprovante.codigo) # <<>>

\* ---------------------------------------------------------------- C3

\* C3: when some unused proof matches the invoice by code, the recorded
\* pairing is the code pairing with the first such proof; an invoice is
\* paired by name+amount or by amount only when no unused proof matched
\* its code.
C3_CodigoPrimeiro ==
    \A k \in 1..Len(resultados) :
        /\ CandidatosPorCodigo(k) # {}
              => /\ resultados[k].metodo = "CODIGO"
                 /\ resultados[k].comprovante =
                        comprovantes[Menor(CandidatosPorCodigo(k))]
        /\ resultados[k].metodo \in {"EMPRESA+VALOR", "VALOR"}
              => CandidatosPorCodigo(k) = {}

\* An invoice is paired by code although an unused proof also matched it
\* by name and amount.
C3_Testemunha ==
    \E k \in Casados : \E n \in LivresAntes(k) :
        /\ resultados[k].metodo = "CODIGO"
        /\ comprovantes[n] # resultados[k].comprovante
        /\ resultados[k].boleto_empresa # NA
        /\ Contem(Strip(Lower(comprovantes[n].empresa)),
                  Strip(Lower(resultados[k].boleto_empresa)))
        /\ Ate2PorCento(comprovantes[n].valor, resultados[k].boleto_valor)

\* ---------------------------------------------------------------- C4

\* C4: a proof marked used stays used, and a recorded pairing is never
\* removed, replaced or re-assigned by a later step.
C4_UsadoParaSempre ==
    [][/\ usados \subseteq usados'
       /\ Len(resultados) <= Len(resultados')
       /\ \A k \in 1..Len(resultados) : resultados'[k] = resultados[k]]_vars

\* A pairing was recorded and a later invoice was processed after it.
C4_Testemunha ==
    /\ usados # {}
    /\ 1 \in Casados
    /\ Len(resultados) = 2
    /\ etapa = "ETAPA3"

\* ---------------------------------------------------------------- C5

\* C5 as claimed: two unequal codes (each with digits) are paired by code
\* only when one is the beginning of the other and the shared beginning
\* has 20 digits or more.
C5_PrefixoDe20 ==
    \A k \in Casados :
        LET a == Limpar(resultados[k].boleto_codigo)
            b == Limpar(resultados[k].comprovante.codigo)
        IN  (resultados[k].metodo = "CODIGO" /\ a # b /\ a # <<>> /\ b # <<>>)
            => /\ Prefixo(a, b) \/ Prefixo(b, a)
               /\ Len(a) >= 20
               /\ Len(b) >= 20

\* C5 amended: an invoice is paired by code exactly when it and an unused
\* proof both carry a code and the digits of one are a contiguous part of
\* the digits of the other, at any position and of any length; the proof
\* it is paired with is such a proof.
C5_CodigoContido ==
    \A k \in 1..Len(resultados) :
        /\ resultados[k].metodo = "CODIGO"
              <=> \E n \in LivresAntes(k) :
                     CasaPorCodigo(resultados[k].boleto_codigo,
                                   comprovantes[n].codigo)
        /\ resultados[k].metodo = "CODIGO"
              => CasaPorCodigo(resultados[k].boleto_codigo,
                               resultados[k].comprovante.codigo)

\* An invoice is paired by code with a proof whose digits hold the
\* invoice's digits, which are fewer than 20, elsewhere than at the start.
C5_Testemunha ==
    \E k \in Casados :
        LET a == Limpar(resultados[k].boleto_codigo)
            b == Limpar(resultados[k].comprovante.codigo)
        IN  /\ resultados[k].metodo = "CODIGO"
            /\ a # <<>>
            /\ Len(a) < Len(b)
            /\ Contem(a, b)
            /\ ~Prefixo(a, b)

\* ---------------------------------------------------------------- C6

\* The names overlap: one, lower-cased and stripped, is a contiguous part
\* of the other.
NomesSobrepostos(a, b) ==
    \/ Contem(Strip(Lower(a)), Strip(Lower(b)))
    \/ Contem(Strip(Lower(b)), Strip(Lower(a)))

\* The positions of the unused proofs whose amount the source accepts for
\* the invoice of result k when that invoice is processed.
CandidatosPorValor(k) ==
    {n \in LivresAntes(k) :
        /\ resultados[k].boleto_valor > 0
        /\ DentroDaTolerancia(comprovantes[n].valor,
                              resultados[k].boleto_valor)}

\* The distance between the amount of the proof at position n and the
\* amount of the invoice of result k.
Distancia(k, n) == Abs(comprovantes[n].valor - resultados[k].boleto_valor)

\* C6 as claimed: an invoice without code and without name for which two
\* or more unused proofs lie within the tolerance stays unmatched, and an
\* invoice is paired by amount only when exactly one unused proof lies
\* within the tolerance.
C6_SoCandidatoUnico ==
    \A k \in 1..Len(resultados) :
        /\ (/\ resultados[k].boleto_codigo = <<>>
            /\ resultados[k].boleto_empresa = NA
            /\ Cardinality(CandidatosPorValor(k)) >= 2)
              => resultados[k].comprovante = Nenhum
        /\ resultados[k].metodo = "VALOR"
              => Cardinality(CandidatosPorValor(k)) = 1

\* C6 amended: an invoice with a positive amount that neither the code nor
\* the name+amount strategy matched is paired by amount whenever at least
\* one unused proof lies within the tolerance, also when there are two or
\* more: the proof taken is the one nearest in amount, the earliest in pool
\* order among those the source finds equally near.
C6_MaisProximo ==
    \A k \in 1..Len(resultados) :
        /\ (/\ resultados[k].metodo \notin {"CODIGO", "EMPRESA+VALOR"}
            /\ CandidatosPorValor(k) # {})
              => resultados[k].metodo = "VALOR"
        /\ resultados[k].metodo = "VALOR"
              => \E n \in CandidatosPorValor(k) :
                    /\ resultados[k].comprovante = comprovantes[n]
                    /\ \A j \in CandidatosPorValor(k) :
                          \/ Distancia(k, n) < Distancia(k, j)
                          \/ Distancia(k, n) = Distancia(k, j) /\ n <= j

\* An invoice without code and without name is paired by amount with the
\* second proof of the pool, the nearer of two unused proofs within the
\* tolerance.
C6_Testemunha ==
    \E k \in Casados :
        /\ Len(comprovantes) >= 2
        /\ resultados[k].metodo = "VALOR"
        /\ resultados[k].boleto_codigo = <<>>
        /\ resultados[k].boleto_empresa = NA
        /\ Cardinality(CandidatosPorValor(k)) = 2
        /\ resultados[k].comprovante = comprovantes[2]

\* ---------------------------------------------------------------- C7

\* The results that hold no pairing, and the proofs nothing is paired with.
SemMatch == (1..Len(resultados)) \ Casados

Sobras == {n \in 1..Len(comprovantes) : comprovantes[n].id \notin usados}

\* C7 as claimed: when the invoice loop is over, it never leaves exactly
\* one invoice and exactly one proof unmatched, for the two are paired.
C7_UltimoRecurso ==
    (etapa = "ETAPA3" /\ i = Len(resultados))
        => ~(Cardinality(SemMatch) = 1 /\ Cardinality(Sobras) = 1)

\* C7 amended: there is no last-resort pairing.  Every pairing is made by
\* one of the three strategies and rests on codes that match or on amounts
\* within the tolerance; when exactly one invoice and exactly one proof
\* remain unmatched after the loop, they stay unpaired, and they match
\* neither by code nor by amount.
C7_SemUltimoRecurso ==
    /\ \A k \in Casados :
          /\ resultados[k].metodo \in {"CODIGO", "EMPRESA+VALOR", "VALOR"}
          /\ \/ CasaPorCodigo(resultados[k].boleto_codigo,
                              resultados[k].comprovante.codigo)
             \/ /\ resultados[k].boleto_valor > 0
                /\ DentroDaTolerancia(resultados[k].comprovante.valor,
                                      resultados[k].boleto_valor)
    /\ \A k \in SemMatch : \A n \in Sobras :
          /\ resultados[k].metodo = "None"
          /\ ~CasaPorCodigo(resultados[k].boleto_codigo,
                            comprovantes[n].codigo)
          /\ ~(/\ resultados[k].boleto_valor > 0
               /\ DentroDaTolerancia(comprovantes[n].valor,
                                     resultados[k].boleto_valor))

\* The loop is over, no invoice raised an error, and exactly one invoice
\* and exactly one proof are left unmatched.
C7_Testemunha ==
    /\ etapa = "ETAPA3"
    /\ i = Len(resultados)
    /\ Cardinality(SemMatch) = 1
    /\ Cardinality(Sobras) = 1

\* ---------------------------------------------------------------- C8

\* The positions of the unused proofs that the name+amount strategy can
\* take for the invoice of result k: the names overlap and the source
\* accepts the amount.
CandidatosPorEmpresa(k) ==
    {n \in CandidatosPorValor(k) :
        NomesSobrepostos(resultados[k].boleto_empresa,
                         comprovantes[n].empresa)}

CodigosIguais(k) ==
    {n \in LivresAntes(k) :
        /\ Limpar(resultados[k].boleto_codigo) # <<>>
        /\ comprovantes[n].codigo # <<>>
        /\ Limpar(comprovantes[n].codigo) = Limpar(resultados[k].boleto_codigo)}

\* C9: an invoice for which an unused proof carries the identical code
\* (after stripping the separators) is paired by code with a proof of the
\* identical code, as an exact match, with status success.
C9_CodigoExato ==
    \A k \in 1..Len(resultados) :
        CodigosIguais(k) # {}
            => /\ resultados[k].metodo = "CODIGO"
               /\ TipoDeMatch(resultados[k].boleto_codigo,
                              resultados[k].comprovante.codigo) = "EXATO"
               /\ \E n \in CodigosIguais(k) :
                     resultados[k].comprovante = comprovantes[n]
               /\ status[resultados[k].boleto + 1] = "success"

\* --------------------------------------------------------------- C10

\* C10: the bound of 2% of the invoice amount is inclusive in both amount
\* searches: an invoice with a positive amount is left unmatched only if
\* no unused proof lies within 2% of its amount, the exact 2% included;
\* with a name, it is not left to the amount-only strategy while an unused
\* proof with an overlapping name lies within that bound.
C10_LimiteInclusivo ==
    \A k \in 1..Len(resultados) : \A n \in LivresAntes(k) :
        (/\ resultados[k].boleto_valor > 0
         /\ Ate2PorCento(comprovantes[n].valor, resultados[k].boleto_valor))
        => /\ resultados[k].comprovante # Nenhum
           /\ (/\ resultados[k].boleto_empresa # NA
               /\ NomesSobrepostos(resultados[k].boleto_empresa,
                                   comprovantes[n].empresa))
                 => resultados[k].metodo # "VALOR"

\* --------------------------------------------------------------- C11

\* The positions of the events of one type, and of the logs of one text.
EventosDoTipo(tipo) == {k \in 1..Len(eventos) : eventos[k].type = tipo}

LogsDe(msg) == {k \in 1..Len(eventos) : eventos[k] = Log(msg)}

\* The run is over and the proof file was never opened.
NaoAbriu == etapa = "ABORTADO" /\ LogsDe("Total de paginas") = {}

\* Nothing was done for any invoice and nothing was written to an archive.
NadaFeito ==
    /\ i = 0
    /\ resultados = <<>>
    /\ status = <<>>
    /\ extracoes = <<>>
    /\ usados = {}
    /\ zip_entradas = <<>>
    /\ EventosDoTipo("file_start") = {}

\* C11 as claimed: when the proof file cannot be opened the run ends with
\* exactly one event of type error, its last, and nothing was done for any
\* invoice nor written to an archive.
C11_UmEventoDeErro ==
    NaoAbriu
        => /\ Cardinality(EventosDoTipo("error")) = 1
           /\ eventos[Len(eventos)].type = "error"
           /\ NadaFeito

\* C11 amended: when the proof file cannot be opened the run ends there:
\* its last event is the one log that carries the error, there is no event
\* of type error and no finish event, no step follows, and nothing was
\* done for any invoice nor written to an archive.
C11_AbortaComLog ==
    NaoAbriu
        => /\ eventos[Len(eventos)] = Log("ERRO ao ler comprovantes")
           /\ Cardinality(LogsDe("ERRO ao ler comprovantes")) = 1
           /\ EventosDoTipo("error") = {}
           /\ EventosDoTipo("finish") = {}
           /\ ~ENABLED NextExecucao
           /\ NadaFeito

\* The proof file could not be opened and the run is over.
C11_Testemunha ==
    /\ NaoAbriu
    /\ comprovantes = <<>>
    /\ Len(eventos) = 3

\* --------------------------------------------------------------- C12

\* C12: a run that reaches its finish event has written exactly one
\* archive entry for every invoice it was handed, also for those that
\* raised an error on the way.
C12_UmaEntradaPorBoleto ==
    etapa = "FIM"
        => /\ Len(zip_entradas) = i
           /\ \A b \in 0..(i - 1) :
                 Cardinality({k \in 1..Len(zip_entradas) :
                                 zip_entradas[k] = b}) = 1

\* --------------------------------------------------------------- C13

\* The calls of extrair_com_gemini made for the pages and for the invoices.
ChamadasDe(quem) ==
    {k \in 1..Len(extracoes) : extracoes[k].quem[1] = quem}

\* The extraction of call k failed: the document was handed over in a form
\* that cannot be hashed, no image could be made of it, the service raised,
\* or its answer was no JSON object.
Falhou(k) ==
    \/ extracoes[k].doc.tipo = "BytesIO"
    \/ extracoes[k].doc.imagem # "ok"
    \/ extracoes[k].resp.tipo \in {"throttled", "erro", "texto", "lista"}

C14_AteTresTentativas ==
    \A k \in 1..Len(extracoes) :
        /\ extracoes[k].chamadas <= 3
        /\ extracoes[k].resp.tipo = "throttled"
              => /\ extracoes[k].chamadas = 3
                 /\ extracoes[k].resultado = Falha

\* --------------------------------------------------------------- C15

\* The service answered call k with fields that extrair_com_gemini
\* returned.
Produziu(k) ==
    /\ extracoes[k].chamadas >= 1
    /\ extracoes[k].resp.tipo = "json"
    /\ extracoes[k].resultado # Falha

\* The result stored for the bytes of call j was still in its lifetime at
\* call k.
NaValidade(j, k) ==
    \A n \in (j + 1)..(k - 1) :
        ~(extracoes[n].quem[1] = "CACHE_TTL"
          /\ extracoes[n].doc.hash = extracoes[j].doc.hash)

\* C15: once the service has produced a result for the bytes of a
\* document, a later extraction of the same bytes within the lifetime of
\* the cache, of an invoice file or of a proof page, returns that result
\* and does not call the service.
C15_CachePorHash ==
    \A j \in 1..Len(extracoes) : \A k \in (j + 1)..Len(extracoes) :
        (/\ Produziu(j)
         /\ extracoes[k].quem[1] # "CACHE_TTL"
         /\ extracoes[k].doc.hash = extracoes[j].doc.hash
         /\ NaValidade(j, k))
        => /\ extracoes[k].resultado = extracoes[j].resultado
           /\ extracoes[k].chamadas = 0

\* The part of C15 that holds: the same for documents handed over as
\* bytes, as the invoice files are.
C15_CacheDeBytes ==
    \A j \in 1..Len(extracoes) : \A k \in (j + 1)..Len(extracoes) :
        (/\ Produziu(j)
         /\ extracoes[k].quem[1] # "CACHE_TTL"
         /\ extracoes[k].doc.tipo = "bytes"
         /\ extracoes[k].doc.hash = extracoes[j].doc.hash
         /\ NaValidade(j, k))
        => /\ extracoes[k].resultado = extracoes[j].resultado
           /\ extracoes[k].chamadas = 0

\* --------------------------------------------------------------- C16

\* The call of extrair_com_gemini for invoice b, and the calls of
\* extrair_valor_do_nome for it.
DoGemini(b) == {k \in ChamadasDe("boleto") : extracoes[k].quem[2] = b}

DoNome(b) == {k \in ChamadasDe("nome") : extracoes[k].quem[2] = b}

\* C16: the file name is asked for the amount of an invoice only after
\* extrair_com_gemini, and only when that gave amount 0; it is not asked
\* when amount and code are both there; an amount that
\* extrair_com_gemini gave is the amount of the result, whatever the file
\* name holds.
C16_NomeSoSemValor ==
    \A n \in 1..Len(resultados) :
        LET b == resultados[n].boleto
        IN  /\ Cardinality(DoGemini(b)) = 1
            /\ Cardinality(DoNome(b)) <= 1
            /\ \A g \in DoGemini(b) :
                  /\ \A k \in DoNome(b) :
                        /\ g < k
                        /\ extracoes[g].resultado.valor = 0
                        /\ resultados[n].boleto_valor
                               = extracoes[k].resultado.valor
                  /\ (/\ extracoes[g].resultado.valor # 0
                      /\ extracoes[g].resultado.codigo # <<>>)
                        => DoNome(b) = {}
                  /\ extracoes[g].resultado.valor # 0
                        => resultados[n].boleto_valor
                               = extracoes[g].resultado.valor

\* One invoice got 100.00 and a code from extrair_com_gemini and the file
\* name was not asked; for another, without amount, the file name gave
\* 101.00.
C16_Testemunha ==
    \E m \in 1..Len(resultados) : \E n \in 1..Len(resultados) :
        /\ resultados[m].boleto_valor = 10000
        /\ resultados[m].boleto_codigo = Cod12
        /\ DoNome(resultados[m].boleto) = {}
        /\ resultados[n].boleto_valor = 10100
        /\ DoNome(resultados[n].boleto) # {}

\* --------------------------------------------------------------- C17

FloatDeCentavos(q) == Float(q, -2)

\* C18: normalizar_valor raises for no argument and returns a number; the
\* Brazilian, the plain-comma and the dot-decimal form of an amount, with
\* or without R$ and blanks, all give that amount.
C18_Total ==
    (etapa = "VALOR" /\ Len(saida) >= 1)
        => /\ saida[1] # OverflowError
           /\ saida[1].tipo = "float"
           /\ \A q \in Quantias :
                 (entrada.tipo = "str" /\ entrada.s \in Formas(q))
                     => saida[1] = FloatDeCentavos(q)

\* The part of C18 that holds: the written forms of one amount agree.
C18_FormasIguais ==
    (etapa = "VALOR" /\ Len(saida) >= 1)
        => \A q \in Quantias :
              (entrada.tipo = "str" /\ entrada.s \in Formas(q))
                  => saida[1] = FloatDeCentavos(q)

\* --------------------------------------------------------------- C19

\* The place of a stage in the order of a run; a run that was aborted or
\* left by an exception has no stage after it.
Ordem(e) ==
    CASE e = "INICIO" -> 0
      [] e = "ETAPA1" -> 1
      [] e = "ETAPA2" -> 2
      [] e = "ETAPA3" -> 3
      [] e = "FIM" -> 4
      [] OTHER -> 5

\* What every step keeps to: the stages follow their order, a page enters
\* the pool only in ETAPA 1 and before anything was done for an invoice,
\* invoices are extracted and matched only in ETAPA 2, and the archive is
\* written only in ETAPA 3, when no result is added any more.
PassoEmOrdem ==
    /\ Ordem(etapa') >= Ordem(etapa)
    /\ comprovantes' # comprovantes
          => etapa = "ETAPA1" /\ i = 0 /\ resultados = <<>>
    /\ (i' # i \/ resultados' # resultados)
          => etapa = "ETAPA2" /\ etapa' = "ETAPA2" /\ zip_entradas = <<>>
                /\ z = 0
    /\ (zip_entradas' # zip_entradas \/ z' # z)
          => etapa = "ETAPA3" /\ resultados' = resultados /\ i' = i

\* A step in which extrair_com_gemini is called for an invoice.
ExtraiBoleto ==
    /\ etapa = "ETAPA2"
    /\ Len(extracoes') > Len(extracoes)

C20_TiposDaSpec ==
    \A k \in 1..Len(eventos) :
        /\ DOMAIN eventos[k] = {"type", "data"}
        /\ eventos[k].type \in {"log", "item_started", "item_finished",
                                "page_status", "done", "error"}

\* C20 amended: every event is a record of type and data, and its type is
\* one of log, comp_status, file_start, file_done, finish.
C20_TiposDoCodigo ==
    \A k \in 1..Len(eventos) :
        /\ DOMAIN eventos[k] = {"type", "data"}
        /\ eventos[k].type \in {"log", "comp_status", "file_start",
                                "file_done", "finish"}

\* A run that emitted events of all five types, one of them for an invoice
\* that raised an error.
C20_Testemunha ==
    /\ \A t \in {"log", "comp_status", "file_start", "file_done", "finish"} :
          EventosDoTipo(t) # {}
    /\ \E k \in EventosDoTipo("file_done") :
          eventos[k].data.status = "error"

\* --------------------------------------------------------------- C21

\* The positions of the file_start and file_done events of invoice b.
InicioDe(b) ==
    {k \in EventosDoTipo("file_start") : eventos[k].data.filename = b}

FimDe(b) ==
    {k \in EventosDoTipo("file_done") : eventos[k].data.filename = b}

\* C21: every invoice the loop has gone through, those that raised an
\* error included, has exactly one file_start event and exactly one
\* file_done event after it, with no file_start of another invoice in
\* between, and there are no others; a run that completes has exactly one
\* finish event, its last event, and no other run has one.
C21_EventosPareados ==
    /\ \A b \in 0..(i - 1) :
          /\ Cardinality(InicioDe(b)) = 1
          /\ Cardinality(FimDe(b)) = 1
          /\ \A s \in InicioDe(b) : \A d \in FimDe(b) :
                /\ s < d
                /\ \A k \in EventosDoTipo("file_start") : ~(s < k /\ k < d)
    /\ Cardinality(EventosDoTipo("file_start")) = i
    /\ Cardinality(EventosDoTipo("file_done")) = i
    /\ etapa = "FIM"
          => /\ Cardinality(EventosDoTipo("finish")) = 1
             /\ eventos[Len(eventos)].type = "finish"
    /\ etapa # "FIM" => EventosDoTipo("finish") = {}

\* A completed run of two invoices, of which one raised an error and the
\* other was processed.
C21_Testemunha ==
    /\ etapa = "FIM"
    /\ i = 2
    /\ Len(resultados) = 1
    /\ \E d \in EventosDoTipo("file_done") : eventos[d].data.status = "error"
    /\ \E d \in EventosDoTipo("file_done") : eventos[d].data.status # "error"

\* --------------------------------------------------------------- C22

\* The data of the finish event of a completed run.
ResumoFinal == eventos[Len(eventos)].data

\* C22: in the finish event of a completed run, total is the number of
\* invoices handed to the run, those whose processing raised an error
\* included, and matches + sem_match = total.
C22_ResumoCompleto ==
    etapa = "FIM"
        => /\ ResumoFinal.total = i
           /\ ResumoFinal.matches + ResumoFinal.sem_match = ResumoFinal.total

\* The sum alone: matches + sem_match = total in every finish event.
C22_SomaDoResumo ==
    etapa = "FIM"
        => ResumoFinal.matches + ResumoFinal.sem_match = ResumoFinal.total

\* --------------------------------------------------------------- C23

\* The generator has stopped: no step of the run can be taken.
Parou == ~ENABLED NextExecucao

\* C23: a run never stops in a stage that is not terminal: when it has
\* stopped it has completed (the finish event was emitted) or it has
\* failed, which the except branches report by a log before they return.
C23_ParaEmFaseTerminal ==
    Parou => etapa \in {"FIM", "ABORTADO"}

\* The run under the scheduling of a generator that is iterated to its
\* end: a step that can be taken is taken.
SpecExecucaoJusta == SpecExecucao /\ WF_vars(NextExecucao)

\* Every run stops: the loops are bounded by the pages and the invoices.
C23_Termina == <>Parou

\* --------------------------------------------------------------- C24

\* C24: a pairing by code is made only when the code of the invoice and
\* the code of the proof both have a digit left after the other
\* characters are stripped.
C24_CodigoComDigitos ==
    \A k \in Casados :
        resultados[k].metodo = "CODIGO"
            => /\ Limpar(resultados[k].boleto_codigo) # <<>>
               /\ Limpar(resultados[k].comprovante.codigo) # <<>>

\* --------------------------------------------------------------- C25

\* C25: when a page of the proof file is extracted whose result is not in
\* the cache and for which the service has a well-formed answer, the
\* service is called once and the page enters the pool with the code, the
\* amount and the name of that answer.
C25_PaginaComResposta ==
    [][\A resp \in RespostasDePagina :
          (/\ ExtrairPagina(resp)
           /\ resp.tipo = "json"
           /\ cache["h1"] = SemCache)
          => /\ extracoes'[Len(extracoes')].chamadas = 1
             /\ comprovantes'[Len(comprovantes')]
                    = NovoItem(Len(comprovantes), ResultadoDaResposta(resp))]_vars

\* --------------------------------------------------------------- C26

\* The positions of the pool that hold page p of the proof file.
RegistrosDe(p) == {n \in 1..Len(comprovantes) : comprovantes[n].id = p}

C27_ZeroForaDoValor ==
    \A k \in Casados :
        resultados[k].metodo \in {"EMPRESA+VALOR", "VALOR"}
            => /\ resultados[k].boleto_valor > 0
               /\ resultados[k].comprovante.valor > 0

\* An invoice of amount 0 stayed unmatched although an unused proof had
\* the amount 0 too, and an invoice with a positive amount was paired by
\* an amount strategy while a proof of amount 0 that stood earlier in the
\* pool was unused.
C27_Testemunha ==
    /\ \E k \in SemMatch : \E n \in LivresAntes(k) :
          /\ resultados[k].boleto_valor = 0
          /\ comprovantes[n].valor = 0
    /\ \E k \in Casados : \E n \in LivresAntes(k) :
          /\ resultados[k].metodo \in {"EMPRESA+VALOR", "VALOR"}
          /\ comprovantes[n].valor = 0
          /\ n < resultados[k].comprovante.id + 1

\* --------------------------------------------------------------- C28

\* The difference of the amounts in exact arithmetic, in thousandths of a
\* cent.
DiferencaExata(valor_comp, valor) == 1000 * Abs(valor_comp - valor)

\* The positions of the unused proofs within 2% of the amount searched
\* for, and those accepted by the comparison of the source.
Ate2PorCentoDe(v) ==
    {n \in 1..Len(comprovantes) :
        /\ comprovantes[n].id \notin usados
        /\ Ate2PorCento(comprovantes[n].valor, v)}

AceitosPara(v) ==
    {n \in 1..Len(comprovantes) :
        /\ comprovantes[n].id \notin usados
        /\ DentroDaTolerancia(comprovantes[n].valor, v)}

\* C28: a search for a positive amount returns, among the unused proofs
\* within 2% of it, the one with the smallest difference to it, the
\* earliest in pool order among equal differences; it returns nothing if
\* and only if no unused proof is within 2%.
C28_MaisProximoEPrimeiro ==
    (saida # <<>> /\ entrada.valor > 0)
        => LET v == entrada.valor
           IN  /\ saida[1] = Nenhum <=> Ate2PorCentoDe(v) = {}
               /\ saida[1] # Nenhum
                     => \E n \in Ate2PorCentoDe(v) :
                           /\ saida[1] = comprovantes[n]
                           /\ \A j \in Ate2PorCentoDe(v) :
                                 \/ DiferencaExata(comprovantes[n].valor, v)
                                        < DiferencaExata(comprovantes[j].valor, v)
                                 \/ /\ DiferencaExata(comprovantes[n].valor, v)
                                           = DiferencaExata(comprovantes[j].valor, v)
                                    /\ n <= j

\* The same with the floats of the source: the proofs its comparison
\* accepts, ordered by the float differences.
C28_MaisProximoEmFloat ==
    (saida # <<>> /\ entrada.valor > 0)
        => LET v == entrada.valor
           IN  /\ saida[1] = Nenhum <=> AceitosPara(v) = {}
               /\ saida[1] # Nenhum
                     => \E n \in AceitosPara(v) :
                           /\ saida[1] = comprovantes[n]
                           /\ \A j \in AceitosPara(v) :
                                 \/ Diferenca(comprovantes[n].valor, v)
                                        < Diferenca(comprovantes[j].valor, v)
                                 \/ /\ Diferenca(comprovantes[n].valor, v)
                                           = Diferenca(comprovantes[j].valor, v)
                                    /\ n <= j

\* --------------------------------------------------------------- C29

\* C29: when the invoice loop is over, the numbers the finish event is
\* given agree: matches is the sum of the matches by code, by name+amount
\* and by amount, and is the number of proofs marked used; the proofs
\* left over are the pages less the invoices that were matched, and are
\* never fewer than none.
C29_ResumoCoerente ==
    etapa = "ETAPA3"
        => /\ Resumo.matches = Resumo.matches_codigo
                  + Resumo.matches_empresa_valor + Resumo.matches_valor
           /\ Resumo.matches = Cardinality(usados)
           /\ Resumo.matches = Cardinality(Casados)
           /\ Resumo.comprovantes_disponiveis
                  = Len(comprovantes) - Cardinality(Casados)
           /\ Resumo.comprovantes_disponiveis >= 0

\* The loop is over with two proofs in the pool, one invoice matched and
\* one left unmatched.
C29_Testemunha ==
    /\ etapa = "ETAPA3"
    /\ Len(comprovantes) = 2
    /\ Len(resultados) = 2
    /\ Cardinality(Casados) = 1

\* --------------------------------------------------------------- C30

\* A step of the loop for an invoice that raised an error or ended
\* without proof.
SemPareamento ==
    /\ i' = i + 1
    /\ \/ resultados' = resultados
       \/ /\ Len(resultados') = Len(resultados) + 1
          /\ resultados'[Len(resultados')].comprovante = Nenhum

\* C30: an invoice that ends unmatched or raises an error leaves the pool,
\* the used set and the pairings recorded so far as they were, and adds no
\* pairing: the proofs free for the invoices after it are those that were
\* free before it.
C30_SemMatchNadaMuda ==
    [][SemPareamento
          => /\ usados' = usados
             /\ comprovantes' = comprovantes
             /\ \A k \in 1..Len(resultados) : resultados'[k] = resultados[k]
             /\ {k \in 1..Len(resultados') :
                    resultados'[k].comprovante # Nenhum} = Casados
             /\ {n \in 1..Len(comprovantes') :
                    comprovantes'[n].id \notin usados'} = Sobras]_vars

\* After an invoice was paired, another ended unmatched and another proof
\* was still free.
C30_Testemunha ==
    /\ Len(resultados) = 2
    /\ 1 \in Casados
    /\ 2 \in SemMatch
    /\ Sobras # {}
    /\ usados # {}

====
